---- MODULE Spec2Model ----
(***************************************************************************)
(* State-machine model of contracts/contracts/RockPaperArena.sol: the      *)
(* match registry (createChallenge, acceptChallenge, cancelMatch,          *)
(* submitMove, lockMove, requestReveal) with its pending-match array.      *)
(* Every external call is one atomic step (a transaction).  A reverting    *)
(* call is rolled back by the runtime and leaves no trace in the storage:  *)
(* the actions are enabled exactly when the call does not revert, and the  *)
(* error a call would revert with is given by the ...Error operators.      *)
(* createdAt is written once by createChallenge and read by no operation   *)
(* of the contract; it is not part of the model.                           *)
(***************************************************************************)
EXTENDS Integers, Sequences, FiniteSets, TLC

\* ---------------------------------------------------------------- bounds
NumPlayers == 3
MaxMatches == 2
MaxMove == 1
MaxCalls == 6

\* ------------------------------------------------------------- constants
ZeroAddress == 0
InitialMatchCounter == 1

\* MatchState enum
None == "None"
Waiting == "Waiting"
BothCommitted == "BothCommitted"
Revealed == "Revealed"
Cancelled == "Cancelled"
MatchState == {None, Waiting, BothCommitted, Revealed, Cancelled}

\* custom errors; Ok marks a call that did not revert
Ok == "Ok"
AlreadyInMatch == "AlreadyInMatch"
InvalidMatchId == "InvalidMatchId"
MatchNotWaiting == "MatchNotWaiting"
UnauthorizedPlayer == "UnauthorizedPlayer"
MoveAlreadyCommitted == "MoveAlreadyCommitted"
InvalidGesture == "InvalidGesture"
MatchNotReady == "MatchNotReady"
InvalidProof == "InvalidProof"

\* callers are non-zero addresses
Players == 1..NumPlayers
\* ids a caller may pass: 0, the allocated ids, and ids never allocated
AllIds == 0..(MaxMatches + 1)
\* cleartext gestures a caller may encrypt (Rock=0, Paper=1, Scissors=2)
MoveValues == 0..MaxMove
\* what a caller passes as (encryptedMove, inputProof): an encryption of a
\* gesture with a valid proof, or an input whose proof does not verify
ExternalInputs ==
    {[value |-> v, proofValid |-> TRUE] : v \in MoveValues}
        \cup {[value |-> 0, proofValid |-> FALSE]}

\* ------------------------------------------------------- FHE black box
\* An euint8 handle: 0 is the uninitialised handle, v + 1 the handle of an
\* encryption of the cleartext v.
NoHandle == 0
Encrypt(v) == v + 1
Decrypt(h) == IF h = NoHandle THEN 0 ELSE h - 1
asEuint8(v) == Encrypt(v)
\* An ebool is modelled by its cleartext.
FHEeq(a, b) == Decrypt(a) = Decrypt(b)
FHEand(x, y) == x /\ y
FHEor(x, y) == x \/ y
FHEselect(c, a, b) == IF c THEN a ELSE b

\* ------------------------------------------------------------- storage
VARIABLES matchCounter, matches, playerStats, playerActiveMatch,
          pendingMatches, results, lastCall, mined

storage == <<matchCounter, matches, playerStats, playerActiveMatch,
             pendingMatches, results>>
vars == <<matchCounter, matches, playerStats, playerActiveMatch,
          pendingMatches, results, lastCall, mined>>

\* the all-zero Match a mapping slot holds before it is written
EmptyMatch ==
    [matchId |-> 0, player1 |-> ZeroAddress, player2 |-> ZeroAddress,
     move1 |-> NoHandle, move2 |-> NoHandle,
     player1Committed |-> FALSE, player2Committed |-> FALSE,
     state |-> None, winner |-> ZeroAddress]

EmptyStats ==
    [wins |-> 0, losses |-> 0, draws |-> 0, totalMatches |-> 0,
     currentStreak |-> 0]

\* events are <<name, matchId, address, result>>
MatchCreated(id, p) == <<"MatchCreated", id, p, 0>>
MatchJoined(id, p) == <<"MatchJoined", id, p, 0>>
MoveCommitted(id, p) == <<"MoveCommitted", id, p, 0>>
MatchRevealed(id, w, r) == <<"MatchRevealed", id, w, r>>
MatchCancelled(id) == <<"MatchCancelled", id, ZeroAddress, 0>>

\* the last call that was mined without reverting
Call(op, sender, id, ret, evs) ==
    [op |-> op, sender |-> sender, matchId |-> id, ret |-> ret, events |-> evs]

\* a call that goes through: lastCall describes it and the number of mined
\* calls, which bounds the length of the histories explored, grows by one
Mined(op, sender, id, ret, evs) ==
    /\ lastCall' = Call(op, sender, id, ret, evs)
    /\ mined' = mined + 1

Init ==
    /\ matchCounter = InitialMatchCounter
    /\ matches = [id \in AllIds |-> EmptyMatch]
    /\ playerStats = [p \in Players |-> EmptyStats]
    /\ playerActiveMatch = [p \in Players |-> 0]
    /\ pendingMatches = <<>>
    /\ results = [id \in AllIds |-> NoHandle]
    /\ lastCall = Call("constructor", ZeroAddress, 0, 0, <<>>)
    /\ mined = 0

\* ------------------------------------------------- internal helpers
\* index of the first slot holding id, 0 when there is none
FirstIndex(arr, id) ==
    IF \E i \in 1..Len(arr) : arr[i] = id
    THEN CHOOSE i \in 1..Len(arr) :
            /\ arr[i] = id
            /\ \A j \in 1..(i - 1) : arr[j] # id
    ELSE 0

\* mutant of _removePendingMatch: pops without moving the last element
RemovePendingMatch_popOnly(arr, id) ==
    LET i == FirstIndex(arr, id)
        n == Len(arr)
    IN  IF i = 0 THEN arr ELSE SubSeq(arr, 1, n - 1)

\* mutant of _removePendingMatch: the hit is overwritten with the first
\* element instead of the last
RemovePendingMatch_swapFirst(arr, id) ==
    LET i == FirstIndex(arr, id)
        n == Len(arr)
    IN  IF i = 0 THEN arr
        ELSE SubSeq([arr EXCEPT ![i] = arr[1]], 1, n - 1)

\* mutant of _removePendingMatch: the elements behind the hit move up by one
RemovePendingMatch_shiftLeft(arr, id) ==
    LET i == FirstIndex(arr, id)
        n == Len(arr)
    IN  IF i = 0 THEN arr
        ELSE SubSeq(arr, 1, i - 1) \o SubSeq(arr, i + 1, n)

\* _removePendingMatch: overwrite the first hit with the last element, pop
RemovePendingMatch(arr, id) ==
    LET i == FirstIndex(arr, id)
        n == Len(arr)
    IN  IF i = 0 THEN arr
        ELSE SubSeq([arr EXCEPT ![i] = arr[n]], 1, n - 1)

\* mutant of _settleMatch: the third winning case reads (2, 0) for (2, 1)
SettleResult_wrongCase(move1, move2) ==
    LET isDraw == FHEeq(move1, move2)
        p1WinCase1 == FHEand(FHEeq(move1, asEuint8(0)), FHEeq(move2, asEuint8(2)))
        p1WinCase2 == FHEand(FHEeq(move1, asEuint8(1)), FHEeq(move2, asEuint8(0)))
        p1WinCase3 == FHEand(FHEeq(move1, asEuint8(2)), FHEeq(move2, asEuint8(0)))
        p1Wins == FHEor(FHEor(p1WinCase1, p1WinCase2), p1WinCase3)
    IN  FHEselect(isDraw, asEuint8(0),
                  FHEselect(p1Wins, asEuint8(1), asEuint8(2)))

\* mutant of _settleMatch: a move of the opponent outside the three gestures
\* forfeits the match
SettleResult_invalidForfeits(move1, move2) ==
    LET isDraw == FHEeq(move1, move2)
        p1WinCase1 == FHEand(FHEeq(move1, asEuint8(0)), FHEeq(move2, asEuint8(2)))
        p1WinCase2 == FHEand(FHEeq(move1, asEuint8(1)), FHEeq(move2, asEuint8(0)))
        p1WinCase3 == FHEand(FHEeq(move1, asEuint8(2)), FHEeq(move2, asEuint8(1)))
        forfeit == Decrypt(move2) > 2
        p1Wins == FHEor(FHEor(FHEor(p1WinCase1, p1WinCase2), p1WinCase3),
                        forfeit)
    IN  FHEselect(isDraw, asEuint8(0),
                  FHEselect(p1Wins, asEuint8(1), asEuint8(2)))

\* the homomorphic truth table of _settleMatch
SettleResult(move1, move2) ==
    LET isDraw == FHEeq(move1, move2)
        p1WinCase1 == FHEand(FHEeq(move1, asEuint8(0)), FHEeq(move2, asEuint8(2)))
        p1WinCase2 == FHEand(FHEeq(move1, asEuint8(1)), FHEeq(move2, asEuint8(0)))
        p1WinCase3 == FHEand(FHEeq(move1, asEuint8(2)), FHEeq(move2, asEuint8(1)))
        p1Wins == FHEor(FHEor(p1WinCase1, p1WinCase2), p1WinCase3)
    IN  FHEselect(isDraw, asEuint8(0),
                  FHEselect(p1Wins, asEuint8(1), asEuint8(2)))

\* mutant of _updateStats: only player1 is counted
UpdateStats_onlyPlayer1(stats, p1, p2) ==
    IF p1 \in DOMAIN stats
    THEN [stats EXCEPT ![p1].totalMatches = @ + 1] ELSE stats

\* mutant of _updateStats: player1 is credited with a win
UpdateStats_creditsPlayer1(stats, p1, p2) ==
    LET s1 == IF p1 \in DOMAIN stats
              THEN [stats EXCEPT ![p1].totalMatches = @ + 1,
                                 ![p1].wins = @ + 1]
              ELSE stats
    IN  IF p2 \in DOMAIN s1
        THEN [s1 EXCEPT ![p2].totalMatches = @ + 1] ELSE s1

\* _updateStats: totalMatches++ for player1, then for player2
UpdateStats(stats, p1, p2) ==
    LET s1 == IF p1 \in DOMAIN stats
              THEN [stats EXCEPT ![p1].totalMatches = @ + 1] ELSE stats
    IN  IF p2 \in DOMAIN s1
        THEN [s1 EXCEPT ![p2].totalMatches = @ + 1] ELSE s1

\* playerActiveMatch[a] = 0 for a storage key that may be the zero address
ClearActive(active, a) ==
    IF a \in DOMAIN active THEN [active EXCEPT ![a] = 0] ELSE active

\* ---------------------------------------------- revert conditions
\* the custom error a call reverts with, Ok when it goes through
\* mutant of the createChallenge guard: the active-match check is missing
createChallengeError_noCheck(sender) == Ok

createChallengeError(sender) ==
    IF playerActiveMatch[sender] # 0 THEN AlreadyInMatch ELSE Ok

\* mutant of the acceptChallenge guard: the active-match check comes before
\* the state check
acceptChallengeError_activeFirst(sender, matchId) ==
    IF matchId = 0 \/ matchId >= matchCounter THEN InvalidMatchId
    ELSE IF playerActiveMatch[sender] # 0 THEN AlreadyInMatch
    ELSE IF matches[matchId].state # Waiting THEN MatchNotWaiting
    ELSE IF matches[matchId].player1 = sender THEN UnauthorizedPlayer
    ELSE Ok

\* mutant of the acceptChallenge guard: matchId > matchCounter for >=
acceptChallengeError_offByOne(sender, matchId) ==
    IF matchId = 0 \/ matchId > matchCounter THEN InvalidMatchId
    ELSE IF matches[matchId].state # Waiting THEN MatchNotWaiting
    ELSE IF playerActiveMatch[sender] # 0 THEN AlreadyInMatch
    ELSE IF matches[matchId].player1 = sender THEN UnauthorizedPlayer
    ELSE Ok

\* mutant of the acceptChallenge guard: the state check is missing
acceptChallengeError_noStateCheck(sender, matchId) ==
    IF matchId = 0 \/ matchId >= matchCounter THEN InvalidMatchId
    ELSE IF playerActiveMatch[sender] # 0 THEN AlreadyInMatch
    ELSE IF matches[matchId].player1 = sender THEN UnauthorizedPlayer
    ELSE Ok

acceptChallengeError(sender, matchId) ==
    IF matchId = 0 \/ matchId >= matchCounter THEN InvalidMatchId
    ELSE IF matches[matchId].state # Waiting THEN MatchNotWaiting
    ELSE IF playerActiveMatch[sender] # 0 THEN AlreadyInMatch
    ELSE IF matches[matchId].player1 = sender THEN UnauthorizedPlayer
    ELSE Ok

\* mutant of the cancelMatch guard: the state is checked before the caller
cancelMatchError_stateFirst(sender, matchId) ==
    IF matches[matchId].state # Waiting THEN MatchNotWaiting
    ELSE IF matches[matchId].player1 # sender THEN UnauthorizedPlayer
    ELSE Ok

cancelMatchError(sender, matchId) ==
    IF matches[matchId].player1 # sender THEN UnauthorizedPlayer
    ELSE IF matches[matchId].state # Waiting THEN MatchNotWaiting
    ELSE Ok

\* mutant of the submitMove guard: player2's committed flag is not checked
submitMoveError_noPlayer2Check(sender, matchId, proofValid) ==
    LET gameMatch == matches[matchId]
        isPlayer1 == gameMatch.player1 = sender
        isPlayer2 == gameMatch.player2 = sender
    IN  IF ~isPlayer1 /\ ~isPlayer2 THEN UnauthorizedPlayer
        ELSE IF isPlayer1 /\ gameMatch.player1Committed THEN MoveAlreadyCommitted
        ELSE IF ~proofValid THEN InvalidProof
        ELSE Ok

\* mutant of the submitMove guard: the input is imported before the caller
\* is resolved
submitMoveError_importFirst(sender, matchId, proofValid) ==
    LET gameMatch == matches[matchId]
        isPlayer1 == gameMatch.player1 = sender
        isPlayer2 == gameMatch.player2 = sender
    IN  IF ~proofValid THEN InvalidProof
        ELSE IF ~isPlayer1 /\ ~isPlayer2 THEN UnauthorizedPlayer
        ELSE IF isPlayer1 /\ gameMatch.player1Committed THEN MoveAlreadyCommitted
        ELSE IF isPlayer2 /\ gameMatch.player2Committed THEN MoveAlreadyCommitted
        ELSE Ok

\* mutant of the submitMove guard: the caller is not checked
submitMoveError_noAuthCheck(sender, matchId, proofValid) ==
    LET gameMatch == matches[matchId]
        isPlayer1 == gameMatch.player1 = sender
        isPlayer2 == gameMatch.player2 = sender
    IN  IF isPlayer1 /\ gameMatch.player1Committed THEN MoveAlreadyCommitted
        ELSE IF isPlayer2 /\ gameMatch.player2Committed THEN MoveAlreadyCommitted
        ELSE IF ~proofValid THEN InvalidProof
        ELSE Ok

\* FHE.fromExternal reverts on an invalid input proof
submitMoveError(sender, matchId, proofValid) ==
    LET gameMatch == matches[matchId]
        isPlayer1 == gameMatch.player1 = sender
        isPlayer2 == gameMatch.player2 = sender
    IN  IF ~isPlayer1 /\ ~isPlayer2 THEN UnauthorizedPlayer
        ELSE IF isPlayer1 /\ gameMatch.player1Committed THEN MoveAlreadyCommitted
        ELSE IF isPlayer2 /\ gameMatch.player2Committed THEN MoveAlreadyCommitted
        ELSE IF ~proofValid THEN InvalidProof
        ELSE Ok

\* mutant of the requestReveal guard: any state but None is accepted
requestRevealError_noStateCheck(sender, matchId) ==
    IF matches[matchId].state = None THEN MatchNotReady
    ELSE IF sender # matches[matchId].player1 /\ sender # matches[matchId].player2
    THEN UnauthorizedPlayer
    ELSE Ok

\* mutant of the requestReveal guard: the caller is checked before the state
requestRevealError_authFirst(sender, matchId) ==
    IF sender # matches[matchId].player1 /\ sender # matches[matchId].player2
    THEN UnauthorizedPlayer
    ELSE IF matches[matchId].state # BothCommitted THEN MatchNotReady
    ELSE Ok

requestRevealError(sender, matchId) ==
    IF matches[matchId].state # BothCommitted THEN MatchNotReady
    ELSE IF sender # matches[matchId].player1 /\ sender # matches[matchId].player2
    THEN UnauthorizedPlayer
    ELSE Ok

\* ------------------------------------------------------- operations
\* mutant of createChallenge: ++matchCounter instead of matchCounter++
createChallenge_preIncrement(sender) ==
    /\ mined < MaxCalls
    /\ matchCounter <= MaxMatches
    /\ createChallengeError(sender) = Ok
    /\ LET matchId == matchCounter + 1 IN
       /\ matchCounter' = matchCounter + 1
       /\ matches' = [matches EXCEPT
                        ![matchId].matchId = matchId,
                        ![matchId].player1 = sender,
                        ![matchId].state = Waiting]
       /\ playerActiveMatch' = [playerActiveMatch EXCEPT ![sender] = matchId]
       /\ pendingMatches' = Append(pendingMatches, matchId)
       /\ Mined("createChallenge", sender, 0, matchId,
                <<MatchCreated(matchId, sender)>>)
       /\ UNCHANGED <<playerStats, results>>

\* mutant of createChallenge: the counter is pushed after the increment
createChallenge_pushesCounter(sender) ==
    /\ mined < MaxCalls
    /\ matchCounter <= MaxMatches
    /\ createChallengeError(sender) = Ok
    /\ LET matchId == matchCounter IN
       /\ matchCounter' = matchCounter + 1
       /\ matches' = [matches EXCEPT
                        ![matchId].matchId = matchId,
                        ![matchId].player1 = sender,
                        ![matchId].state = Waiting]
       /\ playerActiveMatch' = [playerActiveMatch EXCEPT ![sender] = matchId]
       /\ pendingMatches' = Append(pendingMatches, matchCounter + 1)
       /\ Mined("createChallenge", sender, 0, matchId,
                <<MatchCreated(matchId, sender)>>)
       /\ UNCHANGED <<playerStats, results>>

\* mutant of createChallenge: the new id goes to the front of the array
createChallenge_prepends(sender) ==
    /\ mined < MaxCalls
    /\ matchCounter <= MaxMatches
    /\ createChallengeError(sender) = Ok
    /\ LET matchId == matchCounter IN
       /\ matchCounter' = matchCounter + 1
       /\ matches' = [matches EXCEPT
                        ![matchId].matchId = matchId,
                        ![matchId].player1 = sender,
                        ![matchId].state = Waiting]
       /\ playerActiveMatch' = [playerActiveMatch EXCEPT ![sender] = matchId]
       /\ pendingMatches' = <<matchId>> \o pendingMatches
       /\ Mined("createChallenge", sender, 0, matchId,
                <<MatchCreated(matchId, sender)>>)
       /\ UNCHANGED <<playerStats, results>>

createChallenge(sender) ==
    /\ mined < MaxCalls
    /\ matchCounter <= MaxMatches
    /\ createChallengeError(sender) = Ok
    /\ LET matchId == matchCounter IN
       /\ matchCounter' = matchCounter + 1
       /\ matches' = [matches EXCEPT
                        ![matchId].matchId = matchId,
                        ![matchId].player1 = sender,
                        ![matchId].state = Waiting]
       /\ playerActiveMatch' = [playerActiveMatch EXCEPT ![sender] = matchId]
       /\ pendingMatches' = Append(pendingMatches, matchId)
       /\ Mined("createChallenge", sender, 0, matchId,
                <<MatchCreated(matchId, sender)>>)
       /\ UNCHANGED <<playerStats, results>>

\* mutant of acceptChallenge: the join locks the match as if both moves were
\* committed
acceptChallenge_locksMatch(sender, matchId) ==
    /\ mined < MaxCalls
    /\ acceptChallengeError(sender, matchId) = Ok
    /\ matches' = [matches EXCEPT ![matchId].player2 = sender,
                                  ![matchId].state = BothCommitted]
    /\ playerActiveMatch' = [playerActiveMatch EXCEPT ![sender] = matchId]
    /\ pendingMatches' = RemovePendingMatch(pendingMatches, matchId)
    /\ Mined("acceptChallenge", sender, matchId, 0,
             <<MatchJoined(matchId, sender)>>)
    /\ UNCHANGED <<matchCounter, playerStats, results>>

acceptChallenge(sender, matchId) ==
    /\ mined < MaxCalls
    /\ acceptChallengeError(sender, matchId) = Ok
    /\ matches' = [matches EXCEPT ![matchId].player2 = sender]
    /\ playerActiveMatch' = [playerActiveMatch EXCEPT ![sender] = matchId]
    /\ pendingMatches' = RemovePendingMatch(pendingMatches, matchId)
    /\ Mined("acceptChallenge", sender, matchId, 0,
             <<MatchJoined(matchId, sender)>>)
    /\ UNCHANGED <<matchCounter, playerStats, results>>

\* mutant of cancelMatch: the writes come before the state check, and the
\* revert with MatchNotWaiting does not undo them
cancelMatch_writesBeforeRevert(sender, matchId) ==
    /\ mined < MaxCalls
    /\ cancelMatchError(sender, matchId) \in {Ok, MatchNotWaiting}
    /\ matches' = [matches EXCEPT ![matchId].state = Cancelled]
    /\ playerActiveMatch' = [playerActiveMatch EXCEPT ![sender] = 0]
    /\ pendingMatches' = RemovePendingMatch(pendingMatches, matchId)
    /\ Mined("cancelMatch", sender, matchId, 0,
             <<MatchCancelled(matchId)>>)
    /\ UNCHANGED <<matchCounter, playerStats, results>>

\* mutant of cancelMatch: the initiator's active-match entry is kept
cancelMatch_keepsActive(sender, matchId) ==
    /\ mined < MaxCalls
    /\ cancelMatchError(sender, matchId) = Ok
    /\ matches' = [matches EXCEPT ![matchId].state = Cancelled]
    /\ pendingMatches' = RemovePendingMatch(pendingMatches, matchId)
    /\ Mined("cancelMatch", sender, matchId, 0,
             <<MatchCancelled(matchId)>>)
    /\ UNCHANGED <<matchCounter, playerStats, playerActiveMatch, results>>

cancelMatch(sender, matchId) ==
    /\ mined < MaxCalls
    /\ cancelMatchError(sender, matchId) = Ok
    /\ matches' = [matches EXCEPT ![matchId].state = Cancelled]
    /\ playerActiveMatch' = [playerActiveMatch EXCEPT ![sender] = 0]
    /\ pendingMatches' = RemovePendingMatch(pendingMatches, matchId)
    /\ Mined("cancelMatch", sender, matchId, 0,
             <<MatchCancelled(matchId)>>)
    /\ UNCHANGED <<matchCounter, playerStats, results>>

\* mutant of submitMove: the state becomes BothCommitted when either slot is
\* committed
submitMove_eitherCommitted(sender, matchId, value, proofValid) ==
    /\ mined < MaxCalls
    /\ submitMoveError(sender, matchId, proofValid) = Ok
    /\ LET gameMatch == matches[matchId]
           isPlayer1 == gameMatch.player1 = sender
           move == Encrypt(value)
           stored == IF isPlayer1
                     THEN [gameMatch EXCEPT !.move1 = move,
                                            !.player1Committed = TRUE]
                     ELSE [gameMatch EXCEPT !.move2 = move,
                                            !.player2Committed = TRUE]
           final == IF stored.player1Committed \/ stored.player2Committed
                    THEN [stored EXCEPT !.state = BothCommitted]
                    ELSE stored
       IN  /\ matches' = [matches EXCEPT ![matchId] = final]
           /\ Mined("submitMove", sender, matchId, 0,
                    <<MoveCommitted(matchId, sender)>>)
           /\ UNCHANGED <<matchCounter, playerStats, playerActiveMatch,
                          pendingMatches, results>>

\* mutant of submitMove: MoveCommitted is emitted only while the match
\* stays as it is, not by the commit that makes it BothCommitted
submitMove_silentLastCommit(sender, matchId, value, proofValid) ==
    /\ mined < MaxCalls
    /\ submitMoveError(sender, matchId, proofValid) = Ok
    /\ LET gameMatch == matches[matchId]
           isPlayer1 == gameMatch.player1 = sender
           move == Encrypt(value)
           stored == IF isPlayer1
                     THEN [gameMatch EXCEPT !.move1 = move,
                                            !.player1Committed = TRUE]
                     ELSE [gameMatch EXCEPT !.move2 = move,
                                            !.player2Committed = TRUE]
           both == stored.player1Committed /\ stored.player2Committed
           final == IF both THEN [stored EXCEPT !.state = BothCommitted]
                    ELSE stored
       IN  /\ matches' = [matches EXCEPT ![matchId] = final]
           /\ Mined("submitMove", sender, matchId, 0,
                    IF both THEN <<>> ELSE <<MoveCommitted(matchId, sender)>>)
           /\ UNCHANGED <<matchCounter, playerStats, playerActiveMatch,
                          pendingMatches, results>>

\* mutant of submitMove: the state is never set to BothCommitted
submitMove_neverLocks(sender, matchId, value, proofValid) ==
    /\ mined < MaxCalls
    /\ submitMoveError(sender, matchId, proofValid) = Ok
    /\ LET gameMatch == matches[matchId]
           isPlayer1 == gameMatch.player1 = sender
           move == Encrypt(value)
           stored == IF isPlayer1
                     THEN [gameMatch EXCEPT !.move1 = move,
                                            !.player1Committed = TRUE]
                     ELSE [gameMatch EXCEPT !.move2 = move,
                                            !.player2Committed = TRUE]
       IN  /\ matches' = [matches EXCEPT ![matchId] = stored]
           /\ Mined("submitMove", sender, matchId, 0,
                    <<MoveCommitted(matchId, sender)>>)
           /\ UNCHANGED <<matchCounter, playerStats, playerActiveMatch,
                          pendingMatches, results>>

submitMove(sender, matchId, value, proofValid) ==
    /\ mined < MaxCalls
    /\ submitMoveError(sender, matchId, proofValid) = Ok
    /\ LET gameMatch == matches[matchId]
           isPlayer1 == gameMatch.player1 = sender
           move == Encrypt(value)
           stored == IF isPlayer1
                     THEN [gameMatch EXCEPT !.move1 = move,
                                            !.player1Committed = TRUE]
                     ELSE [gameMatch EXCEPT !.move2 = move,
                                            !.player2Committed = TRUE]
           final == IF stored.player1Committed /\ stored.player2Committed
                    THEN [stored EXCEPT !.state = BothCommitted]
                    ELSE stored
       IN  /\ matches' = [matches EXCEPT ![matchId] = final]
           /\ Mined("submitMove", sender, matchId, 0,
                    <<MoveCommitted(matchId, sender)>>)
           /\ UNCHANGED <<matchCounter, playerStats, playerActiveMatch,
                          pendingMatches, results>>

\* mutant of lockMove: a REVEALED match still counts as locked
lockMove_orRevealed(matchId) ==
    matches[matchId].state \in {BothCommitted, Revealed}

\* view function: reads the state, writes nothing
lockMove(matchId) == matches[matchId].state = BothCommitted

\* mutant of requestReveal: the winner is decided from the cleartext result
\* and written to the match
requestReveal_publishesWinner(sender, matchId) ==
    /\ mined < MaxCalls
    /\ requestRevealError(sender, matchId) = Ok
    /\ LET gameMatch == matches[matchId]
           result == SettleResult(gameMatch.move1, gameMatch.move2)
           winner == IF Decrypt(result) = 1 THEN gameMatch.player1
                     ELSE IF Decrypt(result) = 2 THEN gameMatch.player2
                     ELSE ZeroAddress
       IN  /\ results' = [results EXCEPT ![matchId] = result]
           /\ matches' = [matches EXCEPT ![matchId].state = Revealed,
                                         ![matchId].winner = winner]
           /\ playerActiveMatch' =
                 ClearActive(ClearActive(playerActiveMatch, gameMatch.player1),
                             gameMatch.player2)
           /\ playerStats' = UpdateStats(playerStats, gameMatch.player1,
                                         gameMatch.player2)
           /\ Mined("requestReveal", sender, matchId, 0,
                    <<MatchRevealed(matchId, ZeroAddress, 0)>>)
           /\ UNCHANGED <<matchCounter, pendingMatches>>

\* requestReveal with the whole of _settleMatch and _updateStats
requestReveal(sender, matchId) ==
    /\ mined < MaxCalls
    /\ requestRevealError(sender, matchId) = Ok
    /\ LET gameMatch == matches[matchId]
           result == SettleResult(gameMatch.move1, gameMatch.move2)
       IN  /\ results' = [results EXCEPT ![matchId] = result]
           /\ matches' = [matches EXCEPT ![matchId].state = Revealed]
           /\ playerActiveMatch' =
                 ClearActive(ClearActive(playerActiveMatch, gameMatch.player1),
                             gameMatch.player2)
           /\ playerStats' = UpdateStats(playerStats, gameMatch.player1,
                                         gameMatch.player2)
           /\ Mined("requestReveal", sender, matchId, 0,
                    <<MatchRevealed(matchId, ZeroAddress, 0)>>)
           /\ UNCHANGED <<matchCounter, pendingMatches>>

Next ==
    \/ \E p \in Players : createChallenge(p)
    \/ \E p \in Players, id \in AllIds : acceptChallenge(p, id)
    \/ \E p \in Players, id \in AllIds : cancelMatch(p, id)
    \/ \E p \in Players, id \in AllIds, in \in ExternalInputs :
          submitMove(p, id, in.value, in.proofValid)
    \/ \E p \in Players, id \in AllIds : requestReveal(p, id)

Spec == Init /\ [][Next]_vars

TypeOK ==
    /\ matchCounter \in 1..(MaxMatches + 1)
    /\ \A id \in AllIds : matches[id].state \in MatchState
    /\ \A p \in Players : playerActiveMatch[p] \in AllIds
    /\ \A i \in 1..Len(pendingMatches) : pendingMatches[i] \in AllIds

\* ------------------------------------------------------------ helpers
NonTerminal == {Waiting, BothCommitted}
IsParticipant(p, id) == matches[id].player1 = p \/ matches[id].player2 = p
PendingSet == {pendingMatches[i] : i \in 1..Len(pendingMatches)}

\* ------------------------------------------------------------------ C1
\* C1: for every participant p there is at most one match in state WAITING
\* or BOTH_COMMITTED that has p as its player1 or player2.
C1_AtMostOneNonTerminalMatch ==
    \A p \in Players :
        Cardinality({id \in AllIds : /\ matches[id].state \in NonTerminal
                                     /\ IsParticipant(p, id)}) <= 1

\* ------------------------------------------------------------------ C2
\* C2: the set of ids held in pendingMatches is exactly the set of match
\* ids whose state is WAITING and whose player2 is unset.
C2_PendingIsWaitingUnjoined ==
    PendingSet = {id \in AllIds : /\ matches[id].state = Waiting
                                  /\ matches[id].player2 = ZeroAddress}

\* a match was joined out of a pending array that still holds another id
C2_Witness ==
    /\ lastCall.op = "acceptChallenge"
    /\ Len(pendingMatches) >= 1
    /\ matches[lastCall.matchId].player2 # ZeroAddress

\* ------------------------------------------------------------------ C3
AllowedEdges ==
    {<<None, Waiting>>, <<Waiting, BothCommitted>>,
     <<BothCommitted, Revealed>>, <<Waiting, Cancelled>>}

\* C3: the state of a match only changes along NONE -> WAITING,
\* WAITING -> BOTH_COMMITTED, BOTH_COMMITTED -> REVEALED and
\* WAITING -> CANCELLED; a REVEALED or CANCELLED match keeps its state.
C3_OnlyAllowedEdges ==
    [][\A id \in AllIds :
          matches'[id].state # matches[id].state =>
              <<matches[id].state, matches'[id].state>> \in AllowedEdges]_vars

\* ------------------------------------------------------------------ C4
\* C4: once a match has an opponent, acceptChallenge on it by a third
\* identity reverts with MatchNotWaiting.
C4_SecondJoinRejected ==
    \A id \in AllIds, p \in Players :
        (matches[id].player2 # ZeroAddress /\ ~IsParticipant(p, id)) =>
            acceptChallengeError(p, id) = MatchNotWaiting

\* ------------------------------------------------------------------ C5
\* C5: cancelMatch by the initiator of a match that has an opponent reverts
\* with MatchNotWaiting.
C5_CancelAfterJoinRejected ==
    \A id \in AllIds :
        (matches[id].player1 # ZeroAddress /\ matches[id].player2 # ZeroAddress) =>
            cancelMatchError(matches[id].player1, id) = MatchNotWaiting

\* ------------------------------------------------------------------ C6
\* C6: a match becomes REVEALED, and MatchRevealed is emitted for it, only
\* in a requestReveal step taken while both committed flags are true and the
\* match is BOTH_COMMITTED; a REVEALED match stays REVEALED and no further
\* MatchRevealed is emitted for it, so each match is revealed at most once.
C6_RevealOnlyOnceAfterBothCommitted ==
    /\ [](\A id \in AllIds :
            (\/ ~matches[id].player1Committed
             \/ ~matches[id].player2Committed
             \/ matches[id].state = Revealed) =>
                \A p \in Players : requestRevealError(p, id) # Ok)
    /\ [][/\ (\/ lastCall'.op = "requestReveal"
              \/ \E i \in 1..Len(lastCall'.events) :
                    lastCall'.events[i][1] = "MatchRevealed") =>
                LET id == lastCall'.matchId IN
                /\ matches[id].player1Committed
                /\ matches[id].player2Committed
                /\ matches[id].state = BothCommitted
                /\ matches'[id].state = Revealed
                /\ lastCall'.op = "requestReveal"
                /\ lastCall'.events = <<MatchRevealed(id, ZeroAddress, 0)>>
          /\ \A id \in AllIds :
                /\ (matches'[id].state = Revealed /\ matches[id].state # Revealed) =>
                      (lastCall'.op = "requestReveal" /\ lastCall'.matchId = id)
                /\ matches[id].state = Revealed => matches'[id].state = Revealed]_vars

\* a reveal has just gone through
C6_Witness ==
    /\ lastCall.op = "requestReveal"
    /\ matches[lastCall.matchId].state = Revealed

\* ------------------------------------------------------------------ C7
\* C7: while a slot's committed flag is true, submitMove by the player of
\* that slot reverts with MoveAlreadyCommitted (whatever the proof), and in
\* every step the committed flag stays true and the stored handle is kept.
C7_CommittedSlotImmutable ==
    /\ [](\A id \in AllIds, p \in Players, ok \in BOOLEAN :
            \/ matches[id].player1 = p /\ matches[id].player1Committed
            \/ matches[id].player2 = p /\ matches[id].player2Committed
            => submitMoveError(p, id, ok) = MoveAlreadyCommitted)
    /\ [][\A id \in AllIds :
             /\ matches[id].player1Committed =>
                   /\ matches'[id].player1Committed
                   /\ matches'[id].move1 = matches[id].move1
                   /\ ~(lastCall'.op = "submitMove" /\ lastCall'.matchId = id
                          /\ lastCall'.sender = matches[id].player1)
             /\ matches[id].player2Committed =>
                   /\ matches'[id].player2Committed
                   /\ matches'[id].move2 = matches[id].move2
                   /\ ~(lastCall'.op = "submitMove" /\ lastCall'.matchId = id
                          /\ lastCall'.sender = matches[id].player2)]_vars

\* one slot is committed and a later call has gone through on the match
C7_Witness ==
    \E id \in AllIds :
        /\ matches[id].player2Committed
        /\ matches[id].move2 # NoHandle
        /\ lastCall.matchId = id
        /\ lastCall.op = "submitMove"
        /\ lastCall.sender = matches[id].player1

\* ------------------------------------------------------------------ C8
\* C8: createChallenge by c reverts with AlreadyInMatch exactly when
\* playerActiveMatch[c] # 0 and goes through otherwise; a create that goes
\* through returns the current matchCounter as id, leaves match id WAITING
\* with player1 = c, no opponent, no committed move, sets
\* playerActiveMatch[c] = id and appends id to pendingMatches.
C8_CreateChallengeContract ==
    /\ [](\A c \in Players :
            /\ createChallengeError(c) = AlreadyInMatch <=> playerActiveMatch[c] # 0
            /\ createChallengeError(c) = Ok <=> playerActiveMatch[c] = 0)
    /\ [][lastCall'.op = "createChallenge" =>
             LET c == lastCall'.sender
                 id == lastCall'.ret
             IN  /\ playerActiveMatch[c] = 0
                 /\ id = matchCounter
                 /\ matches[id] = EmptyMatch
                 /\ matches'[id].state = Waiting
                 /\ matches'[id].player1 = c
                 /\ matches'[id].player2 = ZeroAddress
                 /\ ~matches'[id].player1Committed
                 /\ ~matches'[id].player2Committed
                 /\ matches'[id].move1 = NoHandle
                 /\ matches'[id].move2 = NoHandle
                 /\ playerActiveMatch'[c] = id
                 /\ pendingMatches' = Append(pendingMatches, id)]_vars

\* a second match was created while the first one exists
C8_Witness ==
    /\ lastCall.op = "createChallenge"
    /\ lastCall.ret = 2
    /\ matches[2].state = Waiting

\* ------------------------------------------------------------------ C9
\* C9: matchCounter starts at 1, grows by exactly 1 in each createChallenge
\* that goes through (which returns the old value as the id) and is left
\* alone by every other call; the allocated ids are exactly 1..matchCounter-1
\* and the matchId field of an allocated match equals its key and never
\* changes.
C9_SequentialIds ==
    /\ matchCounter = 1
    /\ [](\A id \in AllIds :
            /\ matches[id].state # None <=> (1 <= id /\ id < matchCounter)
            /\ matches[id].state # None => matches[id].matchId = id)
    /\ [][/\ lastCall'.op = "createChallenge" =>
                /\ matchCounter' = matchCounter + 1
                /\ lastCall'.ret = matchCounter
          /\ lastCall'.op # "createChallenge" => matchCounter' = matchCounter
          /\ \A id \in AllIds :
                matches[id].state # None =>
                    matches'[id].matchId = matches[id].matchId]_vars

\* a cancelled match 1 is followed by a fresh match 2 of the same initiator
C9_Witness ==
    /\ matchCounter = 3
    /\ matches[1].state = Cancelled
    /\ matches[2].state = Waiting
    /\ matches[2].player1 = matches[1].player1

\* ----------------------------------------------------------------- C10
\* C10: acceptChallenge by the initiator of a WAITING match on that match
\* reverts with UnauthorizedPlayer.
C10_OwnMatchUnauthorized ==
    \A id \in AllIds, p \in Players :
        (matches[id].state = Waiting /\ matches[id].player1 = p) =>
            acceptChallengeError(p, id) = UnauthorizedPlayer

\* ----------------------------------------------------------------- C11
\* the preconditions of acceptChallenge, as the specification numbers them
JoinFails1(p, id) == id = 0 \/ id >= matchCounter
JoinFails2(p, id) == matches[id].state # Waiting
JoinFails3(p, id) == playerActiveMatch[p] # 0
JoinFails4(p, id) == matches[id].player1 = p

C12_InvalidMatchIdBoundary ==
    \A p \in Players, id \in AllIds :
        (id = 0 \/ id >= matchCounter) =>
            acceptChallengeError(p, id) = InvalidMatchId

\* matches exist, a free caller could join match 1, and the first id that is
\* not allocated is rejected
C12_Witness ==
    /\ matchCounter = 2
    /\ \E p \in Players :
          /\ acceptChallengeError(p, 1) = Ok
          /\ acceptChallengeError(p, matchCounter) = InvalidMatchId
          /\ acceptChallengeError(p, 0) = InvalidMatchId

\* ----------------------------------------------------------------- C13
\* the error of the call c in the current state; the move of a submitMove
\* that wrote storage passed the FHE import
CallError(c) ==
    CASE c.op = "createChallenge" -> createChallengeError(c.sender)
      [] c.op = "acceptChallenge" -> acceptChallengeError(c.sender, c.matchId)
      [] c.op = "cancelMatch" -> cancelMatchError(c.sender, c.matchId)
      [] c.op = "submitMove" -> submitMoveError(c.sender, c.matchId, TRUE)
      [] c.op = "requestReveal" -> requestRevealError(c.sender, c.matchId)
      [] OTHER -> InvalidProof

C14_RevealErrors ==
    \A p \in Players, id \in AllIds :
        LET e == requestRevealError(p, id) IN
        /\ matches[id].state # BothCommitted => e = MatchNotReady
        /\ (matches[id].state = BothCommitted /\ ~IsParticipant(p, id)) =>
              e = UnauthorizedPlayer
        /\ (matches[id].state = BothCommitted /\ IsParticipant(p, id)) =>
              e = Ok

\* a BOTH_COMMITTED match with a participant and an outsider, next to a
\* match that is not ready and an id that was never allocated
C14_Witness ==
    \E id, other \in AllIds, p, q \in Players :
        /\ matches[id].state = BothCommitted
        /\ ~IsParticipant(p, id)
        /\ IsParticipant(q, id)
        /\ requestRevealError(p, id) = UnauthorizedPlayer
        /\ requestRevealError(q, id) = Ok
        /\ matches[other].state = Waiting
        /\ requestRevealError(p, other) = MatchNotReady
        /\ requestRevealError(q, matchCounter) = MatchNotReady

\* ----------------------------------------------------------------- C15
\* the contract after player 1 created match 1 and player 2 joined it; mined
\* counts the calls after these two
InitJoined ==
    /\ matchCounter = InitialMatchCounter + 1
    /\ matches = [id \in AllIds |->
                    IF id = InitialMatchCounter
                    THEN [EmptyMatch EXCEPT !.matchId = id, !.player1 = 1,
                                            !.player2 = 2, !.state = Waiting]
                    ELSE EmptyMatch]
    /\ playerStats = [p \in Players |-> EmptyStats]
    /\ playerActiveMatch =
          [p \in Players |-> IF p \in {1, 2} THEN InitialMatchCounter ELSE 0]
    /\ pendingMatches = <<>>
    /\ results = [id \in AllIds |-> NoHandle]
    /\ lastCall = Call("acceptChallenge", 2, InitialMatchCounter, 0,
                       <<MatchJoined(InitialMatchCounter, 2)>>)
    /\ mined = 0

SpecJoined == InitJoined /\ [][Next]_vars

\* C15: after a successful requestReveal(matchId) the match is REVEALED and
\* playerActiveMatch is 0 for its player1 and its player2, and each of the
\* two can go through createChallenge and through acceptChallenge on every
\* other match that is WAITING.
C15_RevealFreesBothPlayers ==
    [][ lastCall'.op = "requestReveal" =>
           LET id == lastCall'.matchId IN
           /\ matches'[id].state = Revealed
           /\ \A p \in Players :
                 (p = matches'[id].player1 \/ p = matches'[id].player2) =>
                    /\ playerActiveMatch'[p] = 0
                    /\ createChallengeError(p)' = Ok
                    /\ \A w \in AllIds :
                          (w # id /\ matches'[w].state = Waiting) =>
                             acceptChallengeError(p, w)' = Ok
      ]_vars

\* ----------------------------------------------------------------- C16
\* the REVEALED matches that have p as player1 or as player2
RevealedMatchesOf(p) ==
    {id \in AllIds : matches[id].state = Revealed /\ IsParticipant(p, id)}

\* C16: playerStats[p].totalMatches changes only in a requestReveal that goes
\* through, where it grows by exactly 1 for the match's player1 and for its
\* player2 and stays for everybody else; in every state it equals the number
\* of REVEALED matches that have p as player1 or player2.
C16_TotalMatchesCountsReveals ==
    /\ [](\A p \in Players :
             playerStats[p].totalMatches = Cardinality(RevealedMatchesOf(p)))
    /\ [][ \A p \in Players :
              LET before == playerStats[p].totalMatches
                  after == playerStats'[p].totalMatches
                  revealed == matches[lastCall'.matchId]
              IN  IF /\ lastCall'.op = "requestReveal"
                     /\ mined' = mined + 1
                     /\ p \in {revealed.player1, revealed.player2}
                  THEN after = before + 1
                  ELSE after = before
         ]_vars

\* a reveal has counted for its two players and not for the third, who waits
\* in a match of their own
C16_Witness ==
    \E p, q, r \in Players :
        /\ p # q
        /\ playerStats[p].totalMatches = 1
        /\ playerStats[q].totalMatches = 1
        /\ playerStats[r].totalMatches = 0
        /\ \E id \in AllIds :
              matches[id].state = Waiting /\ matches[id].player1 = r

\* ----------------------------------------------------------------- C17
\* the cleartexts an externalEuint8 input is drawn from: submitMove checks no
\* range, so values beyond the three gestures are stored as well
MaxInput == 4
InputValues == 0..MaxInput

\* the two players of the joined match commit any input and reveal
NextSettle ==
    \/ \E p \in Players, id \in AllIds, v \in InputValues :
          submitMove(p, id, v, TRUE)
    \/ \E p \in Players, id \in AllIds : requestReveal(p, id)

SpecSettle == InitJoined /\ [][NextSettle]_vars

\* the result codes and the pairs of the specification's table
Draw == 0
InitiatorWins == 1
OpponentWins == 2
InitiatorWinPairs == {<<0, 2>>, <<1, 0>>, <<2, 1>>}
OpponentWinPairs == {<<0, 1>>, <<1, 2>>, <<2, 0>>}

\* C17: for every pair (move1, move2) of {0,1,2} x {0,1,2} the result of the
\* settlement is one of 0 = Draw, 1 = InitiatorWins, 2 = OpponentWins: Draw
\* iff move1 = move2, InitiatorWins iff the pair is (0,2), (1,0) or (2,1),
\* OpponentWins in the three cases that remain.
C17_SettlementTable ==
    \A id \in AllIds :
        LET move1 == Decrypt(matches[id].move1)
            move2 == Decrypt(matches[id].move2)
            result == Decrypt(results[id])
        IN  (/\ matches[id].state = Revealed
             /\ move1 \in {0, 1, 2}
             /\ move2 \in {0, 1, 2}) =>
                /\ result \in {Draw, InitiatorWins, OpponentWins}
                /\ result = Draw <=> move1 = move2
                /\ result = InitiatorWins <=>
                      <<move1, move2>> \in InitiatorWinPairs
                /\ result = OpponentWins <=>
                      <<move1, move2>> \in OpponentWinPairs

\* scissors against paper has been settled for the initiator
C17_Witness ==
    \E id \in AllIds :
        /\ matches[id].state = Revealed
        /\ Decrypt(matches[id].move1) = 2
        /\ Decrypt(matches[id].move2) = 1
        /\ Decrypt(results[id]) = InitiatorWins

\* ----------------------------------------------------------------- C18
\* the publicly readable state: everything but the move and result handles
PublicMatch(m) == [m EXCEPT !.move1 = NoHandle, !.move2 = NoHandle]
PublicState ==
    [matchCounter |-> matchCounter,
     matches |-> [id \in AllIds |-> PublicMatch(matches[id])],
     pendingMatches |-> pendingMatches,
     playerActiveMatch |-> playerActiveMatch,
     playerStats |-> playerStats]

\* the errors of the five calls of a sender on an id, with a valid input,
\* from the public state alone
PublicErrors(pub, sender, id) ==
    LET m == pub.matches[id]
        active == pub.playerActiveMatch[sender]
        outsider == m.player1 # sender /\ m.player2 # sender
    IN  [createChallenge |-> IF active # 0 THEN AlreadyInMatch ELSE Ok,
         acceptChallenge |->
            IF id = 0 \/ id >= pub.matchCounter THEN InvalidMatchId
            ELSE IF m.state # Waiting THEN MatchNotWaiting
            ELSE IF active # 0 THEN AlreadyInMatch
            ELSE IF m.player1 = sender THEN UnauthorizedPlayer
            ELSE Ok,
         cancelMatch |->
            IF m.player1 # sender THEN UnauthorizedPlayer
            ELSE IF m.state # Waiting THEN MatchNotWaiting
            ELSE Ok,
         submitMove |->
            IF outsider THEN UnauthorizedPlayer
            ELSE IF m.player1 = sender /\ m.player1Committed
                 THEN MoveAlreadyCommitted
            ELSE IF m.player2 = sender /\ m.player2Committed
                 THEN MoveAlreadyCommitted
            ELSE Ok,
         requestReveal |->
            IF m.state # BothCommitted THEN MatchNotReady
            ELSE IF outsider THEN UnauthorizedPlayer
            ELSE Ok]

\* the public state after a call that goes through, from the public state
\* before it and the call without its move
PublicStep(pub, op, sender, id) ==
    LET m == pub.matches[id]
        new == pub.matchCounter
    IN
    CASE op = "createChallenge" ->
            [pub EXCEPT
               !.matchCounter = new + 1,
               !.matches[new] = [@ EXCEPT !.matchId = new, !.player1 = sender,
                                          !.state = Waiting],
               !.playerActiveMatch[sender] = new,
               !.pendingMatches = Append(@, new)]
      [] op = "acceptChallenge" ->
            [pub EXCEPT
               !.matches[id].player2 = sender,
               !.playerActiveMatch[sender] = id,
               !.pendingMatches = RemovePendingMatch(@, id)]
      [] op = "cancelMatch" ->
            [pub EXCEPT
               !.matches[id].state = Cancelled,
               !.playerActiveMatch[sender] = 0,
               !.pendingMatches = RemovePendingMatch(@, id)]
      [] op = "submitMove" ->
            LET flagged == IF m.player1 = sender
                           THEN [m EXCEPT !.player1Committed = TRUE]
                           ELSE [m EXCEPT !.player2Committed = TRUE]
            IN  [pub EXCEPT
                   !.matches[id] =
                      IF flagged.player1Committed /\ flagged.player2Committed
                      THEN [flagged EXCEPT !.state = BothCommitted]
                      ELSE flagged]
      [] op = "requestReveal" ->
            [pub EXCEPT
               !.matches[id].state = Revealed,
               !.playerActiveMatch =
                  ClearActive(ClearActive(@, m.player1), m.player2),
               !.playerStats = UpdateStats(@, m.player1, m.player2)]

\* the return value and the events of a call that goes through
PublicOutput(pub, op, sender, id) ==
    CASE op = "createChallenge" ->
            <<pub.matchCounter, <<MatchCreated(pub.matchCounter, sender)>> >>
      [] op = "acceptChallenge" -> <<0, <<MatchJoined(id, sender)>> >>
      [] op = "cancelMatch" -> <<0, <<MatchCancelled(id)>> >>
      [] op = "submitMove" -> <<0, <<MoveCommitted(id, sender)>> >>
      [] op = "requestReveal" ->
            <<0, <<MatchRevealed(id, ZeroAddress, 0)>> >>

\* C18: two executions that apply the same calls by the same callers and
\* differ only in the cleartext moves pass through the same public states
\* and emit the same events. Stated over one execution: whether a call goes
\* through and with which error, the public state after it, its return
\* value and its events are functions of the public state before it and of
\* the call without its move, so the moves submitted cannot tell two
\* executions apart.
C18_PublicStateIgnoresMoves ==
    /\ [](LET pub == PublicState IN
          \A p \in Players, id \in AllIds :
             PublicErrors(pub, p, id) =
                [createChallenge |-> createChallengeError(p),
                 acceptChallenge |-> acceptChallengeError(p, id),
                 cancelMatch |-> cancelMatchError(p, id),
                 submitMove |-> submitMoveError(p, id, TRUE),
                 requestReveal |-> requestRevealError(p, id)])
    /\ [][ LET c == lastCall'
               pub == PublicState
           IN  /\ PublicState' = PublicStep(pub, c.op, c.sender, c.matchId)
               /\ <<c.ret, c.events>> =
                     PublicOutput(pub, c.op, c.sender, c.matchId)
         ]_vars

\* a match has been revealed whose moves differ, where the result names a
\* winner, and no public field tells
C18_Witness ==
    /\ lastCall.op = "requestReveal"
    /\ LET m == matches[lastCall.matchId] IN
       /\ m.state = Revealed
       /\ Decrypt(m.move1) # Decrypt(m.move2)
       /\ Decrypt(results[lastCall.matchId]) # 0
       /\ m.winner = ZeroAddress

\* ----------------------------------------------------------------- C19
\* C19: an entry playerActiveMatch[p] = m with m # 0 points at a match that
\* is WAITING or BOTH_COMMITTED and has p as its player1 or player2; nobody
\* keeps a non-zero entry that points at a CANCELLED or REVEALED match or at
\* a match they are not part of.
C19_ActiveEntryIsLiveAndOwn ==
    \A p \in Players :
        LET m == playerActiveMatch[p] IN
        m # 0 => /\ matches[m].state \in NonTerminal
                 /\ IsParticipant(p, m)

\* ----------------------------------------------------------------- C20
\* C20: a cancelMatch(matchId) that goes through leaves the match CANCELLED,
\* playerActiveMatch of the initiator 0 and matchId out of pendingMatches;
\* createChallenge by the initiator then has no failing precondition, and a
\* createChallenge by a player who cancelled returns an id that no match has
\* had, the cancelled one included.
C20_CancelEffects ==
    [][ /\ lastCall'.op = "cancelMatch" =>
              LET id == lastCall'.matchId
                  initiator == matches[id].player1
              IN  /\ initiator = lastCall'.sender
                  /\ matches'[id].state = Cancelled
                  /\ playerActiveMatch'[initiator] = 0
                  /\ id \notin {pendingMatches'[i] :
                                  i \in 1..Len(pendingMatches')}
                  /\ \A p \in Players :
                        p = initiator => createChallengeError(p)' = Ok
        /\ (lastCall.op = "cancelMatch" /\ lastCall'.op = "createChallenge"
              /\ lastCall'.sender = lastCall.sender) =>
              LET fresh == lastCall'.ret IN
              /\ fresh # lastCall.matchId
              /\ matches[fresh].state = None
              /\ matches'[fresh].state = Waiting
              /\ matches'[fresh].player1 = lastCall.sender
              /\ playerActiveMatch'[lastCall.sender] = fresh
      ]_vars

\* the initiator has cancelled the one pending match: it is CANCELLED, the
\* pending list is empty and the initiator is free
C20_Witness ==
    /\ lastCall.op = "cancelMatch"
    /\ matches[lastCall.matchId].state = Cancelled
    /\ matches[lastCall.matchId].player2 = ZeroAddress
    /\ pendingMatches = <<>>
    /\ playerActiveMatch[lastCall.sender] = 0

\* ----------------------------------------------------------------- C21
\* C21: a submitMove that goes through leaves the match BOTH_COMMITTED
\* exactly when both committed flags are true after it and leaves the state
\* as it was otherwise; in every state a match is BOTH_COMMITTED or REVEALED
\* if and only if both of its committed flags are true.
C21_BothCommittedIffBothFlags ==
    /\ [](\A id \in AllIds :
             matches[id].state \in {BothCommitted, Revealed} <=>
                (matches[id].player1Committed /\ matches[id].player2Committed))
    /\ [][ lastCall'.op = "submitMove" =>
              LET id == lastCall'.matchId IN
              IF matches'[id].player1Committed /\ matches'[id].player2Committed
              THEN matches'[id].state = BothCommitted
              ELSE matches'[id].state = matches[id].state
         ]_vars

\* the first commit has left one match WAITING with one flag, the second
\* commit has taken another to BOTH_COMMITTED
C21_Witness ==
    \E id, other \in AllIds :
        /\ matches[id].state = BothCommitted
        /\ matches[id].player1Committed /\ matches[id].player2Committed
        /\ matches[other].state = Waiting
        /\ matches[other].player1Committed # matches[other].player2Committed

\* ----------------------------------------------------------------- C22
\* C22: lockMove(matchId) is defined for every matchId and writes nothing;
\* it returns true exactly when the match is BOTH_COMMITTED, and false for
\* id 0, for ids >= matchCounter and for matches that are WAITING, REVEALED
\* or CANCELLED.
C22_LockMoveReturns ==
    \A id \in AllIds :
        /\ lockMove(id) \in BOOLEAN
        /\ matches[id].state = BothCommitted => lockMove(id)
        /\ (id = 0 \/ id >= matchCounter) => ~lockMove(id)
        /\ matches[id].state \in {Waiting, Revealed, Cancelled} => ~lockMove(id)

\* matches in three of the states side by side: one locked, one revealed,
\* or cancelled, one never created
C22_Witness ==
    \E a, b \in AllIds :
        /\ lockMove(a)
        /\ matches[b].state \in {Revealed, Cancelled}
        /\ ~lockMove(b)
        /\ ~lockMove(0)
        /\ ~lockMove(matchCounter)

\* ----------------------------------------------------------------- C23
\* C23: in every state the winner of every match is the zero address and
\* wins, losses, draws and currentStreak of every player are 0; a reveal
\* emits MatchRevealed with the zero address as winner and 0 as result,
\* whatever the moves were.
C23_NoWinnerNoScores ==
    /\ \A id \in AllIds : matches[id].winner = ZeroAddress
    /\ \A p \in Players :
          /\ playerStats[p].wins = 0
          /\ playerStats[p].losses = 0
          /\ playerStats[p].draws = 0
          /\ playerStats[p].currentStreak = 0
    /\ lastCall.op = "requestReveal" =>
          lastCall.events = <<<<"MatchRevealed", lastCall.matchId, ZeroAddress, 0>>>>

\* a match that the initiator won has been revealed and counted
C23_Witness ==
    /\ lastCall.op = "requestReveal"
    /\ Decrypt(results[lastCall.matchId]) = 1
    /\ \E p \in Players :
          /\ p = matches[lastCall.matchId].player1
          /\ playerStats[p].totalMatches = 1
          /\ playerStats[p].wins = 0

\* ----------------------------------------------------------------- C24
\* the contract after three players have each created a match, in any
\* order; mined counts the calls after these three
InitPending ==
    \E initiator \in [1..3 -> Players] :
        /\ \A i, j \in 1..3 : initiator[i] = initiator[j] => i = j
        /\ matchCounter = InitialMatchCounter + 3
        /\ matches = [id \in AllIds |->
                        IF id \in 1..3
                        THEN [EmptyMatch EXCEPT !.matchId = id,
                                                !.player1 = initiator[id],
                                                !.state = Waiting]
                        ELSE EmptyMatch]
        /\ playerStats = [p \in Players |-> EmptyStats]
        /\ playerActiveMatch =
              [p \in Players |->
                  IF \E id \in 1..3 : initiator[id] = p
                  THEN CHOOSE id \in 1..3 : initiator[id] = p
                  ELSE 0]
        /\ pendingMatches = <<1, 2, 3>>
        /\ results = [id \in AllIds |-> NoHandle]
        /\ lastCall = Call("createChallenge", initiator[3], 0, 3,
                           <<MatchCreated(3, initiator[3])>>)
        /\ mined = 0

\* the two operations that remove from pendingMatches
NextPending ==
    \/ \E p \in Players, id \in AllIds : acceptChallenge(p, id)
    \/ \E p \in Players, id \in AllIds : cancelMatch(p, id)

SpecPending == InitPending /\ [][NextPending]_vars

\* C24: an acceptChallenge or cancelMatch that goes through removes exactly
\* its matchId from pendingMatches and keeps every other pending id, wherever
\* the id stood: as sets, pending after = pending before minus {matchId}, and
\* no id is listed twice.
C24_RemovesExactlyThatId ==
    [][ lastCall'.op \in {"acceptChallenge", "cancelMatch"} =>
           /\ PendingSet' = PendingSet \ {lastCall'.matchId}
           /\ Len(pendingMatches') = Cardinality(PendingSet')
      ]_vars

\* the middle one of three pending matches has been removed
C24_Witness ==
    /\ lastCall.op \in {"acceptChallenge", "cancelMatch"}
    /\ lastCall.matchId = 2
    /\ pendingMatches = <<1, 3>>

\* ----------------------------------------------------------------- C25
\* C25: submitMove reverts with UnauthorizedPlayer for every caller who is
\* neither player1 nor player2 of the match, every caller of an id that has
\* no match included, whatever the committed flags and whether or not the
\* input would pass the FHE import.
C25_OutsiderUnauthorized ==
    \A p \in Players, id \in AllIds, proofValid \in BOOLEAN :
        ~IsParticipant(p, id) =>
            submitMoveError(p, id, proofValid) = UnauthorizedPlayer

\* an outsider with an invalid input targets a match whose slots are both
\* committed, and a match that does not exist
C25_Witness ==
    \E p \in Players, id \in AllIds :
        /\ matches[id].player1Committed /\ matches[id].player2Committed
        /\ ~IsParticipant(p, id)
        /\ submitMoveError(p, id, FALSE) = UnauthorizedPlayer
        /\ submitMoveError(p, matchCounter, FALSE) = UnauthorizedPlayer

\* ----------------------------------------------------------------- C26
\* C26: cancelMatch reverts with UnauthorizedPlayer for every caller other
\* than the match's player1, whatever the state of the match and also for
\* an id that has no match; for player1 it reverts with MatchNotWaiting when
\* the match is not WAITING, so nobody cancels a CANCELLED match again.
C26_CancelErrors ==
    \A p \in Players, id \in AllIds :
        LET e == cancelMatchError(p, id) IN
        /\ matches[id].player1 # p => e = UnauthorizedPlayer
        /\ (matches[id].player1 = p /\ matches[id].state # Waiting) =>
              e = MatchNotWaiting
        /\ (id = 0 \/ id >= matchCounter) => e = UnauthorizedPlayer
        /\ matches[id].state = Cancelled => e # Ok

\* the initiator has just cancelled: a second cancel is MatchNotWaiting for
\* the initiator and UnauthorizedPlayer for anybody else
C26_Witness ==
    /\ lastCall.op = "cancelMatch"
    /\ cancelMatchError(lastCall.sender, lastCall.matchId) = MatchNotWaiting
    /\ \E p \in Players :
          cancelMatchError(p, lastCall.matchId) = UnauthorizedPlayer

\* ----------------------------------------------------------------- C27
\* the one event the specification expects of a call that went through
ExpectedEvent(c) ==
    CASE c.op = "createChallenge" -> <<"MatchCreated", c.ret, c.sender, 0>>
      [] c.op = "acceptChallenge" -> <<"MatchJoined", c.matchId, c.sender, 0>>
      [] c.op = "cancelMatch" -> <<"MatchCancelled", c.matchId, ZeroAddress, 0>>
      [] c.op = "submitMove" -> <<"MoveCommitted", c.matchId, c.sender, 0>>
      [] c.op = "requestReveal" ->
            <<"MatchRevealed", c.matchId, ZeroAddress, 0>>

\* C27: every call that goes through emits exactly one event, of the kind of
\* the call, with the call's match id and caller: MatchCreated(id,
\* initiator), MatchJoined(id, joiner), MatchCancelled(id), MoveCommitted(id,
\* caller) whether or not the match becomes BOTH_COMMITTED, MatchRevealed(id,
\* 0, 0); only calls none of whose preconditions failed emit. MatchCreated
\* is the first event of its id: it is emitted by the step that takes the
\* slot out of None, and every other event is about a slot that has left
\* None before.
C27_OneEventPerCall ==
    [][ LET c == lastCall' IN
        /\ mined' = mined + 1
        /\ CallError(c) = Ok
        /\ c.events = <<ExpectedEvent(c)>>
        /\ IF c.op = "createChallenge"
           THEN /\ matches[c.ret].state = None
                /\ matches'[c.ret].state # None
           ELSE /\ matches[c.matchId].state # None
                /\ \A id \in AllIds :
                      matches[id].state = None => matches'[id].state = None
      ]_vars

\* the commit that made the match BOTH_COMMITTED has emitted MoveCommitted
C27_Witness ==
    /\ lastCall.op = "submitMove"
    /\ matches[lastCall.matchId].state = BothCommitted
    /\ lastCall.events =
          <<<<"MoveCommitted", lastCall.matchId, lastCall.sender, 0>>>>

\* ----------------------------------------------------------------- C28
\* C28: a requestReveal(m) that goes through sets playerActiveMatch to 0 only
\* for entries that were m: no entry that points at another match is
\* cleared.
C28_RevealClearsOnlyOwnEntries ==
    [][ lastCall'.op = "requestReveal" =>
           \A p \in Players :
              playerActiveMatch'[p] # playerActiveMatch[p] =>
                 playerActiveMatch[p] = lastCall'.matchId
      ]_vars

\* ----------------------------------------------------------------- C29
\* C29: player1 of a match never changes after creation, and player2, once
\* set by acceptChallenge, is never replaced by another identity.
C29_PlayersWrittenOnce ==
    [][ \A id \in AllIds :
           /\ matches[id].player1 # ZeroAddress =>
                 matches'[id].player1 = matches[id].player1
           /\ matches[id].player2 # ZeroAddress =>
                 matches'[id].player2 = matches[id].player2
      ]_vars

\* ----------------------------------------------------------------- C30
\* C30: submitMove never goes through on a CANCELLED or REVEALED match: the
\* committed flags and the move handles of a terminal match never change.
C30_TerminalMatchFrozen ==
    [][ /\ lastCall'.op = "submitMove" =>
              matches[lastCall'.matchId].state \notin {Cancelled, Revealed}
        /\ \A id \in AllIds :
              matches[id].state \in {Cancelled, Revealed} =>
                 /\ matches'[id].player1Committed = matches[id].player1Committed
                 /\ matches'[id].player2Committed = matches[id].player2Committed
                 /\ matches'[id].move1 = matches[id].move1
                 /\ matches'[id].move2 = matches[id].move2
      ]_vars

\* ----------------------------------------------------------------- C31
\* C31: every identity that is player1 or player2 of a match in WAITING or
\* BOTH_COMMITTED has playerActiveMatch equal to the id of that match.
C31_ParticipantsAreTracked ==
    \A id \in AllIds, p \in Players :
        (matches[id].state \in NonTerminal /\ IsParticipant(p, id)) =>
            playerActiveMatch[p] = id

\* ----------------------------------------------------------------- C32
\* C32: once a match is REVEALED no operation changes any field of its
\* record, and acceptChallenge, cancelMatch, submitMove and requestReveal on
\* it revert for every caller.
C32_RevealedIsFinal ==
    /\ [](\A id \in AllIds :
             matches[id].state = Revealed =>
                \A p \in Players :
                   /\ acceptChallengeError(p, id) # Ok
                   /\ cancelMatchError(p, id) # Ok
                   /\ submitMoveError(p, id, TRUE) # Ok
                   /\ submitMoveError(p, id, FALSE) # Ok
                   /\ requestRevealError(p, id) # Ok)
    /\ [][ \A id \in AllIds :
              matches[id].state = Revealed => matches'[id] = matches[id]
         ]_vars

\* a call has gone through after the reveal and the REVEALED match is as
\* the reveal left it
C32_Witness ==
    /\ lastCall.op # "requestReveal"
    /\ \E id \in AllIds :
          /\ matches[id].state = Revealed
          /\ matches[id].player1Committed /\ matches[id].player2Committed
          /\ results[id] # NoHandle

C34_OutOfRangeMoves ==
    /\ \A id \in AllIds :
          LET move1 == Decrypt(matches[id].move1)
              move2 == Decrypt(matches[id].move2)
              result == Decrypt(results[id])
          IN  (/\ matches[id].state = Revealed
               /\ (move1 \notin {0, 1, 2} \/ move2 \notin {0, 1, 2})) =>
                  /\ result \in {Draw, InitiatorWins, OpponentWins}
                  /\ result = (IF move1 = move2 THEN Draw ELSE OpponentWins)
    /\ \A p \in Players, id \in AllIds :
          /\ submitMoveError(p, id, TRUE) # InvalidGesture
          /\ requestRevealError(p, id) # InvalidGesture

\* rock against a move that is no gesture has been settled for the opponent
C34_Witness ==
    \E id \in AllIds :
        /\ matches[id].state = Revealed
        /\ Decrypt(matches[id].move1) = 0
        /\ Decrypt(matches[id].move2) = 3
        /\ Decrypt(results[id]) = OpponentWins

\* ----------------------------------------------------------------- C35
\* C35: no match has player2 equal to player1, and every match that is
\* BOTH_COMMITTED or REVEALED has a player2 that is not the zero address.
C35_OpponentIsSomeoneElse ==
    \A id \in AllIds :
        /\ matches[id].state # None =>
              matches[id].player2 # matches[id].player1
        /\ matches[id].state \in {BothCommitted, Revealed} =>
              matches[id].player2 # ZeroAddress

\* both moves are committed by two different players, next to a match that
\* nobody has joined
C35_Witness ==
    \E id, other \in AllIds :
        /\ matches[id].state = BothCommitted
        /\ matches[id].player2 \in Players \ {matches[id].player1}
        /\ matches[other].state = Waiting
        /\ matches[other].player2 = ZeroAddress

\* ----------------------------------------------------------------- C36
\* the joined match with every call that can be made on it: further joins,
\* the cancel, the commits and the reveal; no match is created, so the calls
\* that go through stay below MaxCalls and none is cut off
NextLive ==
    \/ \E p \in Players, id \in AllIds : acceptChallenge(p, id)
    \/ \E p \in Players, id \in AllIds : cancelMatch(p, id)
    \/ \E p \in Players, id \in AllIds, v \in InputValues :
          submitMove(p, id, v, TRUE)
    \/ \E p \in Players, id \in AllIds : requestReveal(p, id)

\* a participant who can commit eventually commits, a participant who can
\* reveal eventually reveals
Fairness ==
    \A p \in Players, id \in AllIds :
        /\ WF_vars(\E v \in InputValues : submitMove(p, id, v, TRUE))
        /\ WF_vars(requestReveal(p, id))

SpecLive == InitJoined /\ [][NextLive]_vars /\ Fairness

\* C36: under weak fairness of submitMove by each participant and of
\* requestReveal by a participant, every match that an opponent has joined
\* is eventually REVEALED with playerActiveMatch = 0 for both its players.
C36_JoinedMatchIsRevealed ==
    \A id \in AllIds :
        (matches[id].player2 # ZeroAddress) ~>
            (/\ matches[id].state = Revealed
             /\ \A p \in Players :
                   IsParticipant(p, id) => playerActiveMatch[p] = 0)

\* the joined match has been revealed although the initiator had cancelled
\* it and a third player had taken the opponent's place
C36_Witness ==
    \E id \in AllIds :
        /\ matches[id].state = Revealed
        /\ matches[id].player2 = 3
        /\ results[id] # NoHandle
        /\ playerActiveMatch[matches[id].player1] = 0
        /\ playerActiveMatch[matches[id].player2] = 0
        /\ playerActiveMatch[2] = id

\* ----------------------------------------------------------------- C37
\* C37: pendingMatches never holds the same id twice, never holds 0 and
\* never holds an id >= matchCounter.
C37_PendingIdsValid ==
    /\ \A i, j \in 1..Len(pendingMatches) :
          pendingMatches[i] = pendingMatches[j] => i = j
    /\ \A i \in 1..Len(pendingMatches) :
          /\ pendingMatches[i] # 0
          /\ pendingMatches[i] < matchCounter

\* the older of two pending matches has been removed and the newest id is
\* the only one listed
C37_Witness ==
    /\ matchCounter = 3
    /\ pendingMatches = <<2>>
    /\ matches[1].state \in {Waiting, Cancelled}

\* ----------------------------------------------------------------- C38
\* C38: as long as no match has been joined or cancelled, pendingMatches is
\* the created ids in creation order, 1, 2, ..., n; createChallenge always
\* appends the new id at the end of the array.
C38_CreationOrder ==
    /\ []((\A id \in AllIds :
              /\ matches[id].state \in {None, Waiting}
              /\ matches[id].player2 = ZeroAddress) =>
             /\ Len(pendingMatches) = matchCounter - 1
             /\ \A i \in 1..Len(pendingMatches) : pendingMatches[i] = i)
    /\ [][ lastCall'.op = "createChallenge" =>
              /\ Len(pendingMatches') = Len(pendingMatches) + 1
              /\ pendingMatches'[Len(pendingMatches')] = lastCall'.ret
              /\ \A i \in 1..Len(pendingMatches) :
                    pendingMatches'[i] = pendingMatches[i]
         ]_vars

\* two matches have been created and neither joined nor cancelled
C38_Witness ==
    /\ lastCall.op = "createChallenge"
    /\ pendingMatches = <<1, 2>>
    /\ \A id \in {1, 2} :
          matches[id].state = Waiting /\ matches[id].player2 = ZeroAddress

\* ----------------------------------------------------------------- C39
\* C39: _removePendingMatch(matchId) leaves pendingMatches as it is when
\* matchId is not in the array; otherwise the array gets shorter by exactly
\* one element, the former last element stands in the slot of the removed
\* id (the last element is just dropped when the id was last), and every
\* other slot keeps its element.
C39_SwapRemove ==
    [][ lastCall'.op \in {"acceptChallenge", "cancelMatch"} =>
           LET arr == pendingMatches
               n == Len(pendingMatches)
               hits == {i \in 1..n : arr[i] = lastCall'.matchId}
           IN  IF hits = {}
               THEN pendingMatches' = arr
               ELSE /\ Len(pendingMatches') = n - 1
                    /\ \A j \in 1..(n - 1) :
                          pendingMatches'[j] =
                             IF j \in hits THEN arr[n] ELSE arr[j]
      ]_vars

\* the first of three pending ids has been removed and the last one stands
\* in its slot
C39_Witness ==
    /\ lastCall.op \in {"acceptChallenge", "cancelMatch"}
    /\ lastCall.matchId = 1
    /\ pendingMatches = <<3, 2>>
====
